---- MODULE Spec2Model ----
(***************************************************************************)
(* SoundWave MP3 player (src/mp3_player.py): the MP3Player controller, the *)
(* pygame.mixer.music engine it drives, the wall clock it reads and the    *)
(* folder scans it starts.                                                 *)
(*                                                                         *)
(* Time is counted in whole seconds and measured from the current instant: *)
(* time.time() reads 0 and a second that passes moves the one timestamp    *)
(* the player stores, _play_start, one second into the past.  Track        *)
(* durations are chosen so that every percentage the code computes is a    *)
(* whole number.                                                           *)
(* List indices are 0-based as in the source; playlist[i] of the source is *)
(* playlist[i + 1] here.                                                   *)
(***************************************************************************)
EXTENDS Integers, Sequences, FiniteSets, TLC

\* ---------------------------------------------------------------- bounds
MaxTime  == 4      \* time stops once _play_start is this many seconds old
MaxLen   == 2      \* longest playlist add_files may build
MaxScans == 1      \* folder scans in flight at once
MaxPending == 2    \* folder scans in flight at once when scans overlap

\* ------------------------------------------------------ program constants
RestartAfter == 3  \* "elapsed > 3" of _prev_track
NoIndex      == -1 \* current_idx when no track is loaded
NoAttr       == -1 \* _pause_pos before its first assignment (no such attribute)

\* ----------------------------------------------------------------- tracks
\* What get_mp3_meta(f) | {"path": f} yields for the files of the model, in
\* ascending path order.  Texts are sequences of characters.
T1 == [path |-> "m/a.mp3", title |-> <<"a">>, artist |-> <<"X">>, duration |-> 2]
T2 == [path |-> "m/b.mp3", title |-> <<"b">>, artist |-> <<"Y">>, duration |-> 0]
AllTracks == <<T1, T2>>
TrackSet == {AllTracks[i] : i \in 1..Len(AllTracks)}
NoTrack == "none"

\* The values the user can leave the seek bar on, in percent.
SeekPcts == {0, 50, 100}
\* The texts the user can type in the search box.
Filters == {<<>>, <<"x">>, <<"B">>}

RECURSIVE SortedSeq(_)
\* The tracks whose positions in AllTracks are in S, in ascending path order.
SortedSeq(S) ==
    IF S = {} THEN <<>>
    ELSE LET m == CHOOSE x \in S : \A y \in S : x <= y
         IN <<AllTracks[m]>> \o SortedSeq(S \ {m})

\* What scan_directory + get_mp3_meta can hand over: distinct files sorted by path.
ScanResults == {SortedSeq(S) : S \in SUBSET (1..Len(AllTracks))}

\* What the file dialog can return: one or two distinct files, in selection order.
Selections ==
    {<<t>> : t \in TrackSet} \cup
    UNION {{<<t, u>> : u \in TrackSet \ {t}} : t \in TrackSet}

\* ------------------------------------------------------------------ state
VARIABLES
    playlist,       \* self.playlist
    current_idx,    \* self.current_idx
    is_playing,     \* self.is_playing
    is_paused,      \* self.is_paused
    duration,       \* self.duration
    _play_start,    \* self._play_start
    _pause_pos,     \* self._pause_pos
    _dragging,      \* self._dragging
    shuffle,        \* self.shuffle
    repeat,         \* self.repeat
    progress_var,   \* self.progress_var (percent)
    lbl_elapsed,    \* text of self.lbl_elapsed, as <<minutes, seconds>>
    search_var,     \* self.search_var
    listbox,        \* rows of self.listbox: the playlist index each row shows
    eng_track,      \* the file pygame.mixer.music has loaded
    eng_state,      \* "idle", "playing" or "paused"
    eng_pos,        \* the engine's position in the loaded file
    scans,          \* the folder scans in flight, in issue order: the tracks a
                    \* worker found, or the folder a worker is still walking
    op,             \* the handler that ran last
    cmds,           \* the engine calls that handler made, in order
    errbox          \* whether that handler showed messagebox.showerror

vars == <<playlist, current_idx, is_playing, is_paused, duration, _play_start,
          _pause_pos, _dragging, shuffle, repeat, progress_var, lbl_elapsed,
          search_var, listbox, eng_track, eng_state, eng_pos, scans, op,
          cmds, errbox>>

\* The player as one record; a handler is a function from record to record.
St ==
    [playlist |-> playlist, current_idx |-> current_idx, is_playing |-> is_playing,
     is_paused |-> is_paused, duration |-> duration, _play_start |-> _play_start,
     _pause_pos |-> _pause_pos, _dragging |-> _dragging, shuffle |-> shuffle,
     repeat |-> repeat, progress_var |-> progress_var, lbl_elapsed |-> lbl_elapsed,
     search_var |-> search_var, listbox |-> listbox, now |-> 0,
     eng_track |-> eng_track, eng_state |-> eng_state, eng_pos |-> eng_pos,
     cmds |-> <<>>, errbox |-> FALSE]

\* ------------------------------------------------------- pure helpers
Min(a, b) == IF a <= b THEN a ELSE b

\* format_time: the minutes and seconds of "m:ss".
format_time(seconds) ==
    IF seconds < 0 THEN <<0, 0>>
    ELSE <<seconds \div 60, seconds % 60>>

\* str.lower() on the characters the model uses.
LowerChar(c) ==
    CASE c = "X" -> "x"
      [] c = "Y" -> "y"
      [] c = "A" -> "a"
      [] c = "B" -> "b"
      [] c = "C" -> "c"
      [] OTHER -> c

lower(txt) == [i \in 1..Len(txt) |-> LowerChar(txt[i])]

\* Python's "sub in txt".
Contains(sub, txt) ==
    \E i \in 0..(Len(txt) - Len(sub)) : SubSeq(txt, i + 1, i + Len(sub)) = sub

\* f"{t['artist']} - {t['title']}"
Label(t) == t.artist \o <<" ", "-", " ">> \o t.title

\* ------------------------------------------------------ scan_directory
\* The code points of the characters that occur in file names of the model.
Code(c) ==
    CASE c = "." -> 46  [] c = "/" -> 47  [] c = "3" -> 51
      [] c = "A" -> 65  [] c = "M" -> 77  [] c = "P" -> 80
      [] c = "a" -> 97  [] c = "b" -> 98  [] c = "c" -> 99
      [] c = "d" -> 100 [] c = "m" -> 109 [] c = "p" -> 112
      [] c = "r" -> 114 [] c = "s" -> 115 [] c = "t" -> 116
      [] c = "u" -> 117 [] c = "x" -> 120

\* Python's a < b on strings: by code point at the first difference, a proper
\* prefix first.
StrLess(a, b) ==
    \E k \in 1..(Min(Len(a), Len(b)) + 1) :
        /\ SubSeq(a, 1, k - 1) = SubSeq(b, 1, k - 1)
        /\ \/ k > Len(a) /\ k <= Len(b)
           \/ k <= Len(a) /\ k <= Len(b) /\ Code(a[k]) < Code(b[k])

\* str.lower() of a file name.
lower_name(txt) ==
    [i \in 1..Len(txt) |-> CASE txt[i] = "A" -> "a" [] txt[i] = "M" -> "m"
                              [] txt[i] = "P" -> "p" [] OTHER -> txt[i]]

\* str.endswith
endswith(txt, suffix) ==
    /\ Len(txt) >= Len(suffix)
    /\ SubSeq(txt, Len(txt) - Len(suffix) + 1, Len(txt)) = suffix

RECURSIVE sorted(_)
\* sorted() of a list of strings: the first least element, then the rest.
sorted(xs) ==
    IF xs = <<>> THEN <<>>
    ELSE LET m == CHOOSE i \in 1..Len(xs) :
                      /\ \A j \in 1..Len(xs) : ~StrLess(xs[j], xs[i])
                      /\ \A j \in 1..(i - 1) : StrLess(xs[i], xs[j])
         IN <<xs[m]>> \o sorted(SubSeq(xs, 1, m - 1) \o SubSeq(xs, m + 1, Len(xs)))

RECURSIVE listing(_)
\* The names of one directory as the file system lists them: in some order.
listing(S) ==
    IF S = {} THEN <<>>
    ELSE LET x == CHOOSE y \in S : TRUE IN <<x>> \o listing(S \ {x})

\* os.path.join(dirpath, f)
join(dirpath, f) == dirpath \o <<"/">> \o f

\* The directories of the model and the regular files that may lie in them.
DirR == <<"r">>
DirS == <<"r", "/", "s">>
DirD == <<"r", "/", "s", "/", "d">>
DirU == <<"r", "/", "u">>
FileUniverse ==
    {[dir |-> DirR, name |-> <<"t", ".", "m", "p", "3">>],
     [dir |-> DirR, name |-> <<"A", ".", "M", "P", "3">>],
     [dir |-> DirR, name |-> <<"c", ".", "t", "x", "t">>],
     [dir |-> DirS, name |-> <<"a", ".", "m", "p", "3">>],
     [dir |-> DirD, name |-> <<"b", ".", "M", "p", "3">>],
     [dir |-> DirU, name |-> <<"a", ".", "m", "p", "3">>],
     [dir |-> DirU, name |-> <<"m", "p", "3">>]}

\* The orders in which os.walk can yield the directories: top-down, the
\* subdirectories of one directory in the order the file system lists them.
WalkOrders == {<<DirR, DirS, DirD, DirU>>, <<DirR, DirU, DirS, DirD>>}

RECURSIVE walk_loop(_, _, _)
\* The outer loop of scan_directory from the i-th directory of the walk on.
walk_loop(tree, order, i) ==
    IF i > Len(order) THEN <<>>
    ELSE LET dirpath == order[i]
             filenames == listing({f.name : f \in {g \in tree : g.dir = dirpath}})
             listed == sorted(filenames)
             kept == SelectSeq(listed,
                               LAMBDA f : endswith(lower_name(f),
                                                   <<".", "m", "p", "3">>))
         IN [k \in 1..Len(kept) |-> join(dirpath, kept[k])]
                \o walk_loop(tree, order, i + 1)

\* scan_directory with the bug of returning the files in traversal order.
scan_directory_unsorted(exists, tree, order) ==
    IF exists THEN walk_loop(tree, order, 1) ELSE <<>>

\* os.walk of a root that does not exist yields nothing.
scan_directory(exists, tree, order) ==
    LET files == IF exists THEN walk_loop(tree, order, 1) ELSE <<>>
    IN sorted(files)

\* -------------------------------------------------------- get_mp3_meta
\* Path(path).stem: the last component without its last suffix; a leading or
\* a trailing dot starts no suffix.
stem(path) ==
    LET slashes == {k \in 1..Len(path) : path[k] = "/"}
        start == IF slashes = {} THEN 1
                 ELSE (CHOOSE k \in slashes : \A j \in slashes : j <= k) + 1
        name == SubSeq(path, start, Len(path))
        dots == {k \in 2..(Len(name) - 1) : name[k] = "."}
    IN IF dots = {} THEN name
       ELSE SubSeq(name, 1, (CHOOSE k \in dots : \A j \in dots : j <= k) - 1)

Unknown == <<"U", "n", "k", "n", "o", "w", "n">>

\* The files get_mp3_meta is given.
MetaPaths ==
    {join(DirR, <<"t", ".", "m", "p", "3">>),
     join(DirS, <<"a", ".", "m", "p", "3">>),
     join(DirU, <<".", "m", "p", "3">>)}

\* What str(tags[FRAME]) can give for a frame: any text, the empty one too.
TagTexts == {<<>>, <<"Z">>}
TagFrames == {[present |-> FALSE, text |-> <<>>]} \cup
             {[present |-> TRUE, text |-> t] : t \in TagTexts}

\* What mutagen does with one file: the step at which it raises, if any, the
\* length MP3(path).info reports and the frames ID3(path) holds.
TagLibrary ==
    [fail : {"none", "MP3", "ID3", "TIT2", "TPE1", "TALB"},
     length : {0, 3},
     TIT2 : TagFrames, TPE1 : TagFrames, TALB : TagFrames]

\* has_mutagen is HAS_MUTAGEN; lib is what the library does with this file.
get_mp3_meta(path, has_mutagen, lib) ==
    LET meta == [title |-> stem(path), artist |-> Unknown, album |-> Unknown,
                 duration |-> 0]
        m1 == [meta EXCEPT !.duration = lib.length]
        m2 == IF lib.TIT2.present THEN [m1 EXCEPT !.title = lib.TIT2.text] ELSE m1
        m3 == IF lib.TPE1.present THEN [m2 EXCEPT !.artist = lib.TPE1.text] ELSE m2
        m4 == IF lib.TALB.present THEN [m3 EXCEPT !.album = lib.TALB.text] ELSE m3
    IN IF ~has_mutagen \/ lib.fail = "MP3" THEN meta
       ELSE IF lib.fail \in {"ID3", "TIT2"} THEN m1
       ELSE IF lib.fail = "TPE1" THEN m2
       ELSE IF lib.fail = "TALB" THEN m3
       ELSE m4

\* ------------------------------------------------ pygame.mixer.music
music_load(s, path) ==
    [s EXCEPT !.eng_track = path, !.eng_state = "idle", !.eng_pos = 0,
              !.cmds = Append(@, "load")]

music_load_rejected(s) == [s EXCEPT !.cmds = Append(@, "load")]

music_play(s, start) ==
    [s EXCEPT !.eng_state = "playing", !.eng_pos = start,
              !.cmds = Append(@, "play")]

music_pause(s) ==
    [s EXCEPT !.eng_state = IF @ = "playing" THEN "paused" ELSE @,
              !.cmds = Append(@, "pause")]

music_unpause(s) ==
    [s EXCEPT !.eng_state = IF @ = "paused" THEN "playing" ELSE @,
              !.cmds = Append(@, "unpause")]

music_stop(s) ==
    [s EXCEPT !.eng_state = "idle", !.eng_pos = 0, !.cmds = Append(@, "stop")]

get_busy(s) == s.eng_state = "playing"

\* ------------------------------------------------------ MP3Player
RECURSIVE Rows(_, _, _)
\* The loop of _refresh_list from index i on: the indices it inserts.
Rows(pl, ft, i) ==
    IF i >= Len(pl) THEN <<>>
    ELSE IF ft # <<>> /\ ~Contains(ft, lower(Label(pl[i + 1])))
         THEN Rows(pl, ft, i + 1)
         ELSE <<i>> \o Rows(pl, ft, i + 1)

_refresh_list(s, filter_text) ==
    [s EXCEPT !.listbox = Rows(s.playlist, lower(filter_text), 0)]

\* _load_track with the bug of forgetting the current track on a bad index.
_load_track_forgets_current(s, idx, ok) ==
    IF idx < 0 \/ idx >= Len(s.playlist) THEN [s EXCEPT !.current_idx = NoIndex]
    ELSE LET track == s.playlist[idx + 1]
             s1 == [s EXCEPT !.current_idx = idx,
                             !.duration = track.duration,
                             !.lbl_elapsed = <<0, 0>>,
                             !.progress_var = 0]
         IN IF ok
            THEN [music_play(music_load(s1, track.path), 0)
                     EXCEPT !._play_start = s.now,
                            !.is_playing = TRUE,
                            !.is_paused = FALSE]
            ELSE [music_load_rejected(s1) EXCEPT !.errbox = TRUE]

_load_track(s, idx, ok) ==
    IF idx < 0 \/ idx >= Len(s.playlist) THEN s
    ELSE LET track == s.playlist[idx + 1]
             s1 == [s EXCEPT !.current_idx = idx,
                             !.duration = track.duration,
                             !.lbl_elapsed = <<0, 0>>,
                             !.progress_var = 0]
         IN IF ok
            THEN [music_play(music_load(s1, track.path), 0)
                     EXCEPT !._play_start = s.now,
                            !.is_playing = TRUE,
                            !.is_paused = FALSE]
            ELSE [music_load_rejected(s1) EXCEPT !.errbox = TRUE]

\* _load_tracks with the bug of starting track 0 after every load, added files too.
_load_tracks_always_starts(s, tracks, replace, ok) ==
    LET s1 == [s EXCEPT !.playlist = IF replace THEN tracks ELSE @ \o tracks]
        s2 == _refresh_list(s1, <<>>)
    IN IF s2.playlist # <<>>
       THEN _load_track([s2 EXCEPT !.current_idx = 0], 0, ok)
       ELSE s2

\* _load_tracks with the bug of extending the playlist even when replace is set.
_load_tracks_always_extends(s, tracks, replace, ok) ==
    LET s1 == [s EXCEPT !.playlist = @ \o tracks]
        s2 == _refresh_list(s1, <<>>)
    IN IF replace /\ s2.playlist # <<>>
       THEN _load_track([s2 EXCEPT !.current_idx = 0], 0, ok)
       ELSE s2

\* _load_tracks with the bug of dropping a scan result that arrives during playback.
_load_tracks_drops_while_playing(s, tracks, replace, ok) ==
    IF replace /\ s.is_playing THEN s
    ELSE LET s1 == [s EXCEPT !.playlist = IF replace THEN tracks ELSE @ \o tracks]
             s2 == _refresh_list(s1, <<>>)
         IN IF replace /\ s2.playlist # <<>>
            THEN _load_track([s2 EXCEPT !.current_idx = 0], 0, ok)
            ELSE s2

_load_tracks(s, tracks, replace, ok) ==
    LET s1 == [s EXCEPT !.playlist = IF replace THEN tracks ELSE @ \o tracks]
        s2 == _refresh_list(s1, <<>>)
    IN IF replace /\ s2.playlist # <<>>
       THEN _load_track([s2 EXCEPT !.current_idx = 0], 0, ok)
       ELSE s2

\* _stop with the bug of leaving is_paused set.
_stop_keeps_paused(s) == [music_stop(s) EXCEPT !.is_playing = FALSE]

_stop(s) == [music_stop(s) EXCEPT !.is_playing = FALSE, !.is_paused = FALSE]

_clear_playlist(s) ==
    LET s1 == [_stop(s) EXCEPT !.playlist = <<>>, !.current_idx = NoIndex]
    IN [_refresh_list(s1, <<>>) EXCEPT !.progress_var = 0, !.lbl_elapsed = <<0, 0>>]

\* _play_pause with the bug of resuming without moving _play_start.
_play_pause_stale_start(s, ok) ==
    IF s.playlist = <<>> THEN s
    ELSE IF s.current_idx < 0 THEN _load_track(s, 0, ok)
    ELSE IF s.is_playing /\ ~s.is_paused
         THEN [music_pause(s) EXCEPT !.is_paused = TRUE,
                                     !._pause_pos = s.now - s._play_start]
    ELSE IF s.is_paused
         THEN [music_unpause(s) EXCEPT !.is_paused = FALSE]
    ELSE _load_track(s, s.current_idx, ok)

\* _play_pause with the bug of starting a stopped player at the first track.
_play_pause_restarts_first(s, ok) ==
    IF s.playlist = <<>> THEN s
    ELSE IF s.current_idx < 0 THEN _load_track(s, 0, ok)
    ELSE IF s.is_playing /\ ~s.is_paused
         THEN [music_pause(s) EXCEPT !.is_paused = TRUE,
                                     !._pause_pos = s.now - s._play_start]
    ELSE IF s.is_paused
         THEN IF s._pause_pos = NoAttr
              THEN music_unpause(s)
              ELSE [music_unpause(s) EXCEPT !._play_start = s.now - s._pause_pos,
                                            !.is_paused = FALSE]
    ELSE _load_track(s, 0, ok)

_play_pause(s, ok) ==
    IF s.playlist = <<>> THEN s
    ELSE IF s.current_idx < 0 THEN _load_track(s, 0, ok)
    ELSE IF s.is_playing /\ ~s.is_paused
         THEN [music_pause(s) EXCEPT !.is_paused = TRUE,
                                     !._pause_pos = s.now - s._play_start]
    ELSE IF s.is_paused
         THEN IF s._pause_pos = NoAttr
              THEN music_unpause(s)  \* AttributeError ends the handler here
              ELSE [music_unpause(s) EXCEPT !._play_start = s.now - s._pause_pos,
                                            !.is_paused = FALSE]
    ELSE _load_track(s, s.current_idx, ok)

\* _next_track with the bug of not wrapping at the end of the playlist.
_next_track_no_wrap(s, rnd, ok) ==
    IF s.playlist = <<>> THEN s
    ELSE LET idx == IF s.shuffle THEN rnd ELSE s.current_idx + 1
         IN _load_track(s, idx, ok)

\* rnd is what random.randint(0, len(self.playlist) - 1) returns.
_next_track(s, rnd, ok) ==
    IF s.playlist = <<>> THEN s
    ELSE LET idx == IF s.shuffle THEN rnd
                    ELSE (s.current_idx + 1) % Len(s.playlist)
         IN _load_track(s, idx, ok)

_prev_track(s, ok) ==
    IF s.playlist = <<>> THEN s
    ELSE LET elapsed == IF s.is_playing THEN s.now - s._play_start ELSE 0
         IN IF elapsed > RestartAfter
            THEN _load_track(s, s.current_idx, ok)
            ELSE _load_track(s, (s.current_idx - 1) % Len(s.playlist), ok)

_toggle_shuffle(s) == [s EXCEPT !.shuffle = ~@]

_toggle_repeat(s) == [s EXCEPT !.repeat = ~@]

\* sel is listbox.curselection()[0], the row the user activated.
_on_double_click(s, sel, ok) == _load_track(s, sel, ok)

\* The user edits the search box to text; the trace on search_var runs.
_on_search(s, text) == _refresh_list([s EXCEPT !.search_var = text], text)

\* <ButtonPress-1> on the seek bar.
seek_press(s) == [s EXCEPT !._dragging = TRUE]

\* The scale moved to val percent: its variable follows, then the command runs.
_on_seek_drag(s, val) ==
    LET s1 == [s EXCEPT !.progress_var = val]
    IN IF s1._dragging /\ s1.duration > 0
       THEN [s1 EXCEPT !.lbl_elapsed = format_time((val * s1.duration) \div 100)]
       ELSE s1

\* _on_seek_release with the bug of stamping _play_start with the present.
_on_seek_release_no_offset(s) ==
    LET s1 == [s EXCEPT !._dragging = FALSE]
    IN IF s1.duration > 0
       THEN LET pos == (s1.progress_var * s1.duration) \div 100
            IN IF s1.eng_track = NoTrack
               THEN [s1 EXCEPT !.cmds = Append(@, "play")]
               ELSE [music_play(s1, pos) EXCEPT !._play_start = s1.now,
                                                !.is_playing = TRUE,
                                                !.is_paused = FALSE]
       ELSE s1

_on_seek_release(s) ==
    LET s1 == [s EXCEPT !._dragging = FALSE]
    IN IF s1.duration > 0
       THEN LET pos == (s1.progress_var * s1.duration) \div 100
            IN IF s1.eng_track = NoTrack
               THEN [s1 EXCEPT !.cmds = Append(@, "play")]  \* pygame.error: not loaded
               ELSE [music_play(s1, pos) EXCEPT !._play_start = s1.now - pos,
                                                !.is_playing = TRUE,
                                                !.is_paused = FALSE]
       ELSE s1

\* _poll_playback with the bug of advancing at the end of a track even on repeat.
_poll_playback_ignores_repeat(s, rnd, ok) ==
    IF s.is_playing /\ ~s.is_paused /\ ~s._dragging
    THEN LET elapsed == s.now - s._play_start
             s1 == [s EXCEPT !.lbl_elapsed = format_time(elapsed)]
             s2 == IF s1.duration > 0
                   THEN [s1 EXCEPT !.progress_var =
                                       Min((elapsed * 100) \div s1.duration, 100)]
                   ELSE s1
         IN IF ~get_busy(s2) /\ 2 * elapsed >= 2 * s2.duration - 1 /\ s2.duration > 0
            THEN _next_track([s2 EXCEPT !.is_playing = FALSE], rnd, ok)
            ELSE s2
    ELSE s

\* _poll_playback with the bug of not looking at _dragging.
_poll_playback_while_dragging(s, rnd, ok) ==
    IF s.is_playing /\ ~s.is_paused
    THEN LET elapsed == s.now - s._play_start
             s1 == [s EXCEPT !.lbl_elapsed = format_time(elapsed)]
             s2 == IF s1.duration > 0
                   THEN [s1 EXCEPT !.progress_var =
                                       Min((elapsed * 100) \div s1.duration, 100)]
                   ELSE s1
         \* elapsed >= duration - 0.5, doubled to stay in whole numbers
         IN IF ~get_busy(s2) /\ 2 * elapsed >= 2 * s2.duration - 1 /\ s2.duration > 0
            THEN LET s3 == [s2 EXCEPT !.is_playing = FALSE]
                 IN IF s3.repeat
                    THEN _load_track(s3, s3.current_idx, ok)
                    ELSE _next_track(s3, rnd, ok)
            ELSE s2
    ELSE s

\* _poll_playback with the bug of testing for the end of a track of unknown duration.
_poll_playback_no_duration_guard(s, rnd, ok) ==
    IF s.is_playing /\ ~s.is_paused /\ ~s._dragging
    THEN LET elapsed == s.now - s._play_start
             s1 == [s EXCEPT !.lbl_elapsed = format_time(elapsed)]
             s2 == IF s1.duration > 0
                   THEN [s1 EXCEPT !.progress_var =
                                       Min((elapsed * 100) \div s1.duration, 100)]
                   ELSE s1
         \* elapsed >= duration - 0.5, doubled to stay in whole numbers
         IN IF ~get_busy(s2) /\ 2 * elapsed >= 2 * s2.duration - 1
            THEN LET s3 == [s2 EXCEPT !.is_playing = FALSE]
                 IN IF s3.repeat
                    THEN _load_track(s3, s3.current_idx, ok)
                    ELSE _next_track(s3, rnd, ok)
            ELSE s2
    ELSE s

\* _poll_playback with the bug of stopping at the end of a track.
_poll_playback_stops_at_end(s, rnd, ok) ==
    IF s.is_playing /\ ~s.is_paused /\ ~s._dragging
    THEN LET elapsed == s.now - s._play_start
             s1 == [s EXCEPT !.lbl_elapsed = format_time(elapsed)]
             s2 == IF s1.duration > 0
                   THEN [s1 EXCEPT !.progress_var =
                                       Min((elapsed * 100) \div s1.duration, 100)]
                   ELSE s1
         IN IF ~get_busy(s2) /\ 2 * elapsed >= 2 * s2.duration - 1 /\ s2.duration > 0
            THEN [s2 EXCEPT !.is_playing = FALSE]
            ELSE s2
    ELSE s

_poll_playback(s, rnd, ok) ==
    IF s.is_playing /\ ~s.is_paused /\ ~s._dragging
    THEN LET elapsed == s.now - s._play_start
             s1 == [s EXCEPT !.lbl_elapsed = format_time(elapsed)]
             s2 == IF s1.duration > 0
                   THEN [s1 EXCEPT !.progress_var =
                                       Min((elapsed * 100) \div s1.duration, 100)]
                   ELSE s1
         \* elapsed >= duration - 0.5, doubled to stay in whole numbers
         IN IF ~get_busy(s2) /\ 2 * elapsed >= 2 * s2.duration - 1 /\ s2.duration > 0
            THEN LET s3 == [s2 EXCEPT !.is_playing = FALSE]
                 IN IF s3.repeat
                    THEN _load_track(s3, s3.current_idx, ok)
                    ELSE _next_track(s3, rnd, ok)
            ELSE s2
    ELSE s

\* ---------------------------------------------------------------- actions
Init ==
    /\ playlist = <<>>
    /\ current_idx = NoIndex
    /\ is_playing = FALSE
    /\ is_paused = FALSE
    /\ duration = 0
    /\ _play_start = 0
    /\ _pause_pos = NoAttr
    /\ _dragging = FALSE
    /\ shuffle = FALSE
    /\ repeat = FALSE
    /\ progress_var = 0
    /\ lbl_elapsed = <<0, 0>>
    /\ search_var = <<>>
    /\ listbox = <<>>
    /\ eng_track = NoTrack
    /\ eng_state = "idle"
    /\ eng_pos = 0
    /\ scans = <<>>
    /\ op = "init"
    /\ cmds = <<>>
    /\ errbox = FALSE

\* Handler name ran on the UI context and left the player as s.
Ran(name, s) ==
    /\ playlist' = s.playlist
    /\ current_idx' = s.current_idx
    /\ is_playing' = s.is_playing
    /\ is_paused' = s.is_paused
    /\ duration' = s.duration
    /\ _play_start' = s._play_start
    /\ _pause_pos' = s._pause_pos
    /\ _dragging' = s._dragging
    /\ shuffle' = s.shuffle
    /\ repeat' = s.repeat
    /\ progress_var' = s.progress_var
    /\ lbl_elapsed' = s.lbl_elapsed
    /\ search_var' = s.search_var
    /\ listbox' = s.listbox
    /\ eng_track' = s.eng_track
    /\ eng_state' = s.eng_state
    /\ eng_pos' = s.eng_pos
    /\ op' = name
    /\ cmds' = s.cmds
    /\ errbox' = s.errbox

RandomIndexes == IF playlist = <<>> THEN {0} ELSE 0..(Len(playlist) - 1)

\* _open_folder: the user picks a folder and the worker thread starts.
OpenFolder ==
    /\ Len(scans) < MaxScans
    /\ \E tracks \in ScanResults : scans' = Append(scans, tracks)
    /\ Ran("_open_folder", St)

\* _open_folder again while earlier scans are still running: one more worker.
OpenFolderWhilePending ==
    /\ scans # <<>>
    /\ Len(scans) < MaxPending
    /\ \E tracks \in ScanResults : scans' = Append(scans, tracks)
    /\ Ran("_open_folder", St)

\* A worker finished and its root.after(0, ...) callback ran: _load_tracks
\* with replace=True.  Workers finish in any order.
ScanDelivered ==
    \E i \in 1..Len(scans) : \E ok \in BOOLEAN :
        /\ scans' = SubSeq(scans, 1, i - 1) \o SubSeq(scans, i + 1, Len(scans))
        /\ Ran("scan_delivered", _load_tracks(St, scans[i], TRUE, ok))

AddFiles ==
    \E paths \in Selections :
        /\ Len(playlist) + Len(paths) <= MaxLen
        /\ Ran("_add_files", _load_tracks(St, paths, FALSE, TRUE))
        /\ UNCHANGED scans

ClearPlaylist == Ran("_clear_playlist", _clear_playlist(St)) /\ UNCHANGED scans

PlayPause ==
    \E ok \in BOOLEAN : Ran("_play_pause", _play_pause(St, ok)) /\ UNCHANGED scans

NextTrack ==
    \E rnd \in RandomIndexes : \E ok \in BOOLEAN :
        Ran("_next_track", _next_track(St, rnd, ok)) /\ UNCHANGED scans

PrevTrack ==
    \E ok \in BOOLEAN : Ran("_prev_track", _prev_track(St, ok)) /\ UNCHANGED scans

ToggleShuffle == Ran("_toggle_shuffle", _toggle_shuffle(St)) /\ UNCHANGED scans

ToggleRepeat == Ran("_toggle_repeat", _toggle_repeat(St)) /\ UNCHANGED scans

\* Double click or Return on a displayed row.
DoubleClick ==
    \E sel \in 0..(Len(listbox) - 1) : \E ok \in BOOLEAN :
        Ran("_on_double_click", _on_double_click(St, sel, ok)) /\ UNCHANGED scans

Search ==
    \E text \in Filters \ {search_var} :
        Ran("_on_search", _on_search(St, text)) /\ UNCHANGED scans

SeekPress ==
    /\ ~_dragging
    /\ Ran("seek_press", seek_press(St))
    /\ UNCHANGED scans

SeekDrag ==
    /\ _dragging
    /\ \E val \in SeekPcts : Ran("_on_seek_drag", _on_seek_drag(St, val))
    /\ UNCHANGED scans

SeekRelease ==
    /\ _dragging
    /\ Ran("_on_seek_release", _on_seek_release(St))
    /\ UNCHANGED scans

Poll ==
    \E rnd \in RandomIndexes : \E ok \in BOOLEAN :
        Ran("_poll_playback", _poll_playback(St, rnd, ok)) /\ UNCHANGED scans

\* A second passes; a playing engine moves on in its file.
Tick ==
    /\ St.now - _play_start < MaxTime
    /\ Ran("tick", [St EXCEPT !._play_start = @ - 1,
                              !.eng_pos = IF St.eng_state = "playing" THEN @ + 1 ELSE @])
    /\ UNCHANGED scans

\* The engine reaches the end of the file it plays and stops rendering.
EngineEnd ==
    /\ eng_state = "playing"
    /\ Ran("engine_end", [St EXCEPT !.eng_state = "idle", !.eng_pos = 0])
    /\ UNCHANGED scans

\* _open_folder on a folder of the model: the worker thread starts and holds
\* the folder, which may not exist, and the order os.walk will take.
StartScan ==
    /\ scans = <<>>
    /\ \E exists \in BOOLEAN : \E tree \in SUBSET FileUniverse : \E order \in WalkOrders :
          /\ ~exists => tree = {}
          /\ scans' = <<[pc |-> "walking", exists |-> exists, tree |-> tree,
                         order |-> order, files |-> <<>>]>>
    /\ Ran("_open_folder", St)

\* The worker runs scan_directory(folder).
WorkerScans ==
    /\ scans # <<>>
    /\ scans[1].pc = "walking"
    /\ scans' = <<[scans[1] EXCEPT
                      !.pc = "walked",
                      !.files = scan_directory(scans[1].exists, scans[1].tree,
                                               scans[1].order)]>>
    /\ Ran("scan_directory", St)

\* _add_files on one file of the model, read by get_mp3_meta.
AddFileRead ==
    /\ playlist = <<>>
    /\ \E path \in MetaPaths : \E has_mutagen \in BOOLEAN : \E lib \in TagLibrary :
          Ran("_add_files",
              _load_tracks(St, <<get_mp3_meta(path, has_mutagen, lib) @@ [path |-> path]>>,
                           FALSE, TRUE))
    /\ UNCHANGED scans

\* The worker that was started first finishes and its callback runs.
DeliverOldest == ScanDelivered /\ scans' = Tail(scans)

\* Playback against the clock: transport buttons, seek bar, poll and engine.
Next ==
    \/ AddFiles
    \/ ClearPlaylist
    \/ PlayPause
    \/ NextTrack
    \/ PrevTrack
    \/ SeekPress
    \/ SeekDrag
    \/ SeekRelease
    \/ Poll
    \/ Tick
    \/ EngineEnd

Spec == Init /\ [][Next]_vars

\* Shuffle and repeat: what follows a track, on request and at its end.
NextModes ==
    \/ AddFiles
    \/ ClearPlaylist
    \/ PlayPause
    \/ NextTrack
    \/ PrevTrack
    \/ ToggleShuffle
    \/ ToggleRepeat
    \/ Poll
    \/ Tick
    \/ EngineEnd

SpecModes == Init /\ [][NextModes]_vars

\* Folder scans: what their delivery does to a playlist in use.
NextLibrary ==
    \/ OpenFolder
    \/ ScanDelivered
    \/ AddFiles
    \/ ClearPlaylist
    \/ PlayPause
    \/ Tick

SpecLibrary == Init /\ [][NextLibrary]_vars

\* The playlist view: search box, rows and their activation.
NextView ==
    \/ OpenFolder
    \/ ScanDelivered
    \/ AddFiles
    \/ ClearPlaylist
    \/ Search
    \/ DoubleClick
    \/ NextTrack

SpecView == Init /\ [][NextView]_vars

\* Indices that outlive their playlist: scans, additions and the buttons that
\* load by index.
NextIndex ==
    \/ OpenFolder
    \/ ScanDelivered
    \/ AddFiles
    \/ ClearPlaylist
    \/ NextTrack
    \/ PrevTrack
    \/ PlayPause

SpecIndex == Init /\ [][NextIndex]_vars

\* The worker thread of a folder scan, walking one folder.
NextScan ==
    \/ StartScan
    \/ WorkerScans

SpecScan == Init /\ [][NextScan]_vars

\* Reading the metadata of a file on its way into the playlist.
NextMeta ==
    \/ AddFileRead

SpecMeta == Init /\ [][NextMeta]_vars

\* Unattended playback: the user sets a playlist going; the poll timer, the
\* clock and the engine always get their turn.
NextAuto ==
    \/ AddFiles
    \/ PlayPause
    \/ Poll
    \/ Tick
    \/ EngineEnd

SpecAuto ==
    /\ Init
    /\ [][NextAuto]_vars
    /\ WF_vars(Poll)
    /\ WF_vars(Tick)
    /\ WF_vars(EngineEnd)

\* Overlapping folder scans: every worker thread runs to its end and the
\* event loop runs its callback.
NextScans ==
    \/ OpenFolder
    \/ OpenFolderWhilePending
    \/ ScanDelivered
    \/ ClearPlaylist

SpecScans ==
    /\ Init
    /\ [][NextScans]_vars
    /\ WF_vars(DeliverOldest)

\* ------------------------------------------------------- claims: vocabulary
\* Everything the player object holds, and everything the engine holds.
PlayerVars == <<playlist, current_idx, is_playing, is_paused, duration, _play_start,
                _pause_pos, _dragging, shuffle, repeat, progress_var, lbl_elapsed,
                search_var, listbox>>
EngineVars == <<eng_track, eng_state, eng_pos>>

\* The elapsed time a poll would compute now: time.time() - self._play_start.
PollElapsed == St.now - _play_start

\* current_idx points into the playlist.
ValidIndex == current_idx >= 0 /\ current_idx < Len(playlist)

\* The last handler asked the engine for a track and the engine took it / refused it.
Accepted == cmds = <<"load", "play">>
Rejected == cmds = <<"load">> /\ errbox

\* ------------------------------------------------------------------- C1
\* C1: with a track loaded in a non-empty playlist, previous() goes by the
\* track's playback position, which does not count time spent paused: at a
\* position of at most 3 s it loads (current_idx - 1) mod length, beyond 3 s it
\* reloads current_idx; playing or paused alike.  The engine's own position
\* is the playback position.
C1_PreviousByPosition ==
    [][(/\ op' = "_prev_track"
        /\ playlist # <<>>
        /\ ValidIndex
        /\ is_playing
        /\ eng_state # "idle")
       => current_idx' = IF eng_pos > RestartAfter
                         THEN current_idx
                         ELSE (current_idx - 1) % Len(playlist)]_vars

\* ------------------------------------------------------------------- C2
\* C2: pausing records the elapsed time e of that moment; resuming after any
\* delay makes the elapsed time a poll computes equal to e again; and whenever
\* the player is playing, not paused and the engine is rendering, the elapsed
\* time a poll computes is the engine's position in the file, so that no time
\* spent paused is ever counted.
C2_ResumeKeepsElapsed ==
    [][/\ (op' = "_play_pause" /\ cmds' = <<"pause">>)
            => (is_paused' /\ _pause_pos' = PollElapsed)
       /\ (op' = "_play_pause" /\ cmds' = <<"unpause">>)
            => (~is_paused' /\ PollElapsed' = _pause_pos /\ current_idx' = current_idx)
       /\ (is_playing' /\ ~is_paused' /\ eng_state' = "playing")
            => PollElapsed' = eng_pos']_vars

\* A resume that finds the engine rendering again at the paused position e > 0.
C2_Witness ==
    /\ op = "_play_pause"
    /\ cmds = <<"unpause">>
    /\ is_playing /\ ~is_paused
    /\ eng_state = "playing"
    /\ _pause_pos > 0
    /\ PollElapsed = _pause_pos
    /\ eng_pos = _pause_pos

\* ------------------------------------------------------------------- C3
\* C3: after a handler in which the engine rejected the file (the error box
\* was shown) the player is not marked playing, whatever it was doing before.
C3_RejectedLoadNotPlaying == errbox => ~is_playing

\* ------------------------------------------------------------------- C4
\* C4: clear() leaves the playlist empty, no current index, neither playing
\* nor paused, and has told the engine to stop; a playPause() right after it
\* changes nothing in the player or the engine and issues no engine command.
C4_ClearThenPlayPause ==
    [][/\ op' = "_clear_playlist"
            => /\ playlist' = <<>>
               /\ current_idx' = NoIndex
               /\ ~is_playing' /\ ~is_paused'
               /\ cmds' = <<"stop">>
               /\ eng_state' = "idle"
       /\ (op = "_clear_playlist" /\ op' = "_play_pause")
            => /\ UNCHANGED <<PlayerVars, EngineVars>>
               /\ cmds' = <<>>
               /\ ~errbox']_vars

\* clear() has just stopped a playback that had been paused on a loaded file.
C4_Witness ==
    /\ op = "_clear_playlist"
    /\ cmds = <<"stop">>
    /\ playlist = <<>> /\ current_idx = NoIndex
    /\ ~is_playing /\ ~is_paused
    /\ eng_track # NoTrack
    /\ _pause_pos # NoAttr

\* ------------------------------------------------------------------- C5
\* C5: activating the row shown at position sel of the playlist view loads
\* the track that row shows, whatever the playlist and the filter.
C5_RowActivationLoadsShownTrack ==
    [][\A sel \in 0..(Len(listbox) - 1) : \A ok \in BOOLEAN :
         (Ran("_on_double_click", _on_double_click(St, sel, ok)) /\ UNCHANGED scans)
            => current_idx' = listbox[sel + 1]]_vars

\* ------------------------------------------------------------------- C6
\* The poll's test for natural completion.
NaturalCompletion ==
    /\ is_playing /\ ~is_paused /\ ~_dragging
    /\ eng_state # "playing"
    /\ duration > 0
    /\ 2 * PollElapsed >= 2 * duration - 1

\* C6: a poll that detects natural completion with repeat enabled keeps
\* current_idx and loads that same track again: the engine is asked for its
\* file and, having accepted it, plays it from 0 with the elapsed time at 0;
\* shuffle and the playlist length make no difference.
C6_RepeatReloadsSameTrack ==
    [][(op' = "_poll_playback" /\ NaturalCompletion /\ repeat)
       => /\ current_idx' = current_idx
          /\ playlist' = playlist
          /\ ValidIndex
               => /\ Accepted' \/ Rejected'
                  /\ duration' = playlist[current_idx + 1].duration
                  /\ progress_var' = 0 /\ lbl_elapsed' = <<0, 0>>
                  /\ Accepted'
                       => /\ eng_track' = playlist[current_idx + 1].path
                          /\ eng_state' = "playing" /\ eng_pos' = 0
                          /\ PollElapsed' = 0
                          /\ is_playing' /\ ~is_paused']_vars

\* The poll restarted track 1 of a two-track playlist at its end, shuffle on.
C6_Witness ==
    /\ op = "_poll_playback"
    /\ Accepted
    /\ repeat /\ shuffle
    /\ Len(playlist) = 2 /\ current_idx = 1
    /\ playlist[2].duration > 0
    /\ eng_track = playlist[2].path
    /\ is_playing /\ PollElapsed = 0

\* ------------------------------------------------------------------- C7
\* C7: next() on an empty playlist changes nothing; on a playlist of length
\* n with shuffle off it loads (current_idx + 1) mod n, which is 0 from n - 1
\* and from "no track"; with shuffle on it loads some index of 0..n-1.  The
\* loaded index becomes current_idx and its file is the one the engine is
\* asked for.
C7_NextAdvancesWithWrap ==
    [][op' = "_next_track"
       => /\ playlist = <<>>
               => UNCHANGED <<PlayerVars, EngineVars>> /\ cmds' = <<>>
          /\ playlist # <<>>
               => /\ playlist' = playlist
                  /\ current_idx' \in 0..(Len(playlist) - 1)
                  /\ ~shuffle => current_idx' = (current_idx + 1) % Len(playlist)
                  /\ ~shuffle /\ current_idx = Len(playlist) - 1 => current_idx' = 0
                  /\ ~shuffle /\ current_idx = NoIndex => current_idx' = 0
                  /\ Accepted' \/ Rejected'
                  /\ Accepted' => /\ eng_track' = playlist[current_idx' + 1].path
                                  /\ is_playing' /\ PollElapsed' = 0]_vars

\* next() with shuffle off has started track 0 of a two-track playlist.
C7_Witness ==
    /\ op = "_next_track"
    /\ Accepted
    /\ ~shuffle
    /\ Len(playlist) = 2 /\ current_idx = 0
    /\ eng_track = playlist[1].path
    /\ is_playing

\* ------------------------------------------------------------------- C8
\* C8: releasing the seek bar at pct percent on a track of known duration
\* D > 0 that the engine holds sets _play_start to now - pct/100 * D and tells
\* the engine to play from that offset; every second that passes adds one to
\* the elapsed time a poll computes, nothing but an engine command changes
\* it, and the poll displays it.
C8_SeekSetsElapsed ==
    [][/\ (op' = "_on_seek_release" /\ duration > 0 /\ eng_track # NoTrack)
            => LET pos == (progress_var * duration) \div 100
               IN /\ _play_start' = St.now - pos
                  /\ PollElapsed' = pos
                  /\ cmds' = <<"play">>
                  /\ eng_state' = "playing" /\ eng_pos' = pos
                  /\ eng_track' = eng_track
                  /\ is_playing' /\ ~is_paused'
       /\ op' = "tick" => PollElapsed' = PollElapsed + 1
       /\ (op' # "tick" /\ cmds' = <<>>) => PollElapsed' = PollElapsed
       /\ (op' = "_poll_playback" /\ cmds' = <<>>
           /\ is_playing /\ ~is_paused /\ ~_dragging)
            => lbl_elapsed' = format_time(PollElapsed)]_vars

\* The seek bar was released at 50% of the 2-second track: elapsed is 1 s.
C8_Witness ==
    /\ op = "_on_seek_release"
    /\ cmds = <<"play">>
    /\ duration = 2 /\ progress_var = 50
    /\ PollElapsed = 1 /\ eng_pos = 1
    /\ eng_state = "playing"

\* ------------------------------------------------------------------- C9
\* C9: addFiles appends the selected tracks, in selection order, after the
\* existing entries, which all keep their positions (a file already in the
\* playlist is added again); current_idx, is_playing, is_paused,
\* _play_start, duration and the engine are untouched and no engine command
\* is issued.
C9_AddFilesAppendsOnly ==
    [][op' = "_add_files"
       => /\ \E paths \in Selections : playlist' = playlist \o paths
          /\ SubSeq(playlist', 1, Len(playlist)) = playlist
          /\ UNCHANGED <<current_idx, is_playing, is_paused, _play_start, duration>>
          /\ UNCHANGED EngineVars
          /\ cmds' = <<>>]_vars

\* A file was added a second time while the first track was playing.
C9_Witness ==
    /\ op = "_add_files"
    /\ Len(playlist) = 2 /\ playlist[1] = playlist[2]
    /\ current_idx = 0
    /\ is_playing /\ ~is_paused
    /\ eng_state = "playing" /\ eng_pos > 0

\* ------------------------------------------------------------------ C10
\* C10: the delivery of a folder scan makes the playlist exactly the scanned
\* sequence, whatever it held; a non-empty result makes current_idx 0 and
\* loads track 0: the engine is asked for its file and, having accepted it,
\* plays it from 0 with the player playing, not paused, at elapsed 0.
C10_ScanReplacesPlaylist ==
    [][op' = "scan_delivered"
       => \E i \in 1..Len(scans) :
            /\ scans' = SubSeq(scans, 1, i - 1) \o SubSeq(scans, i + 1, Len(scans))
            /\ playlist' = scans[i]
            /\ scans[i] # <<>>
                 => /\ current_idx' = 0
                    /\ duration' = scans[i][1].duration
                    /\ Accepted' \/ Rejected'
                    /\ Accepted'
                         => /\ eng_track' = scans[i][1].path
                            /\ eng_state' = "playing" /\ eng_pos' = 0
                            /\ is_playing' /\ ~is_paused'
                            /\ PollElapsed' = 0]_vars

\* A scan of one file replaced a playlist in which another track was current.
C10_Witness ==
    /\ op = "scan_delivered"
    /\ Accepted
    /\ playlist = <<T2>>
    /\ current_idx = 0
    /\ eng_track = T2.path
    /\ is_playing /\ ~is_paused

\* ------------------------------------------------------------------ C11
\* The indices _load_track refuses: below 0, or at or past the playlist's end.
BadIndexes == {-2, -1} \cup (Len(playlist)..(MaxLen + 1))

\* C11: _load_track with an index below 0 or not below the playlist length
\* changes nothing: current_idx, is_playing, is_paused, duration, _play_start
\* and the engine stay as they are, no engine command is issued and no error
\* box is shown.  So playPause() on a stopped player whose current_idx lies
\* past the end of the playlist does nothing at all.
C11_OutOfRangeLoadIsNoOp ==
    [][/\ \A idx \in BadIndexes : \A ok \in BOOLEAN :
            LET s == _load_track(St, idx, ok)
            IN /\ s.current_idx = current_idx
               /\ s.is_playing = is_playing /\ s.is_paused = is_paused
               /\ s.duration = duration /\ s._play_start = _play_start
               /\ <<s.eng_track, s.eng_state, s.eng_pos>> = EngineVars
               /\ s.cmds = <<>> /\ ~s.errbox
               /\ s = St
       /\ (/\ op' = "_play_pause"
           /\ playlist # <<>>
           /\ current_idx >= Len(playlist)
           /\ ~is_playing /\ ~is_paused)
            => /\ UNCHANGED <<PlayerVars, EngineVars>>
               /\ cmds' = <<>> /\ ~errbox']_vars

\* playPause() found the player stopped on an index past the end of a
\* non-empty playlist and handed that index to _load_track.
C11_Witness ==
    /\ op = "_play_pause"
    /\ playlist # <<>>
    /\ current_idx >= Len(playlist)
    /\ ~is_playing /\ ~is_paused
    /\ cmds = <<>> /\ ~errbox

\* ------------------------------------------------------------------ C12
\* The extension of a file name: what follows its last dot, nothing without one.
Extension(name) ==
    IF \E k \in 1..Len(name) : name[k] = "."
    THEN LET d == CHOOSE k \in 1..Len(name) :
                      name[k] = "." /\ \A j \in (k + 1)..Len(name) : name[j] # "."
         IN SubSeq(name, d + 1, Len(name))
    ELSE <<>>

\* The full paths of the files of a folder whose extension is mp3 in any case.
Mp3Paths(exists, tree) ==
    {join(f.dir, f.name) :
        f \in {g \in tree : exists /\ lower_name(Extension(g.name)) = <<"m", "p", "3">>}}

\* C12: what scan_directory returns for a folder is exactly the files under
\* it, at any depth, whose extension is mp3 in any mix of case, each once, in
\* strictly ascending order of full path, the same for every order in which
\* the directories are walked; a folder that does not exist and a folder
\* without such a file give the empty list.
C12_ScanListsMp3Sorted ==
    \A i \in 1..Len(scans) :
        scans[i].pc = "walked"
        => LET job == scans[i]
               res == job.files
           IN /\ {res[k] : k \in 1..Len(res)} = Mp3Paths(job.exists, job.tree)
              /\ Len(res) = Cardinality(Mp3Paths(job.exists, job.tree))
              /\ \A j, k \in 1..Len(res) : j < k => StrLess(res[j], res[k])
              /\ \A order \in WalkOrders :
                    scan_directory(job.exists, job.tree, order) = res
              /\ (~job.exists \/ Mp3Paths(job.exists, job.tree) = {}) => res = <<>>

\* A walk of the whole tree that met r/t.mp3 before the files of r/s, and
\* returned the five mp3 files with r/A.MP3 first and r/u/a.mp3 last.
C12_Witness ==
    /\ scans # <<>>
    /\ scans[1].pc = "walked"
    /\ scans[1].tree = FileUniverse
    /\ scans[1].order = <<DirR, DirS, DirD, DirU>>
    /\ Len(scans[1].files) = 5
    /\ scans[1].files[1] = join(DirR, <<"A", ".", "M", "P", "3">>)
    /\ scans[1].files[4] = join(DirR, <<"t", ".", "m", "p", "3">>)
    /\ scans[1].files[5] = join(DirU, <<"a", ".", "m", "p", "3">>)

\* ------------------------------------------------------------------ C13
\* C13: whatever the tag library does with a file (absent, raising at any
\* step, frames absent, frames present with any text), get_mp3_meta returns
\* a duration >= 0 and non-empty title, artist and album, and a frame that is
\* absent leaves the default there: the file name's stem, "Unknown".  So
\* every track that reaches the playlist has these fields filled.
C13_MetaAlwaysFilled ==
    /\ \A i \in 1..Len(playlist) :
          /\ playlist[i].duration >= 0
          /\ playlist[i].title # <<>>
          /\ playlist[i].artist # <<>>
          /\ playlist[i].album # <<>>
    /\ \A path \in MetaPaths : \A has_mutagen \in BOOLEAN : \A lib \in TagLibrary :
          LET meta == get_mp3_meta(path, has_mutagen, lib)
          IN /\ stem(path) # <<>>
             /\ ~lib.TIT2.present => meta.title = stem(path)
             /\ ~lib.TPE1.present => meta.artist = Unknown
             /\ ~lib.TALB.present => meta.album = Unknown

\* ------------------------------------------------------------------ C14
\* C14: from the press on the seek bar to its release _dragging is set, and
\* while it is set a poll changes nothing: not the displayed elapsed time,
\* not the progress value, and it detects no end of track (no engine command,
\* no change of track).  A drag of the seek bar issues no engine command and
\* leaves _play_start, current_idx, is_playing, is_paused and the engine alone.
C14_DragFreezesPoll ==
    [][/\ op' = "seek_press" => _dragging'
       /\ (_dragging /\ op' # "_on_seek_release") => _dragging'
       /\ (op' = "_poll_playback" /\ _dragging)
            => /\ UNCHANGED <<lbl_elapsed, progress_var>>
               /\ UNCHANGED <<PlayerVars, EngineVars>>
               /\ cmds' = <<>> /\ ~errbox'
       /\ op' = "_on_seek_drag"
            => /\ cmds' = <<>>
               /\ UNCHANGED <<_play_start, current_idx, is_playing, is_paused>>
               /\ UNCHANGED EngineVars]_vars

\* A poll ran during a drag to 50% of the 2-second track, with the engine
\* silent and the elapsed time past the end: the preview 0:01 still shows.
C14_Witness ==
    /\ op = "_poll_playback"
    /\ _dragging
    /\ is_playing /\ ~is_paused
    /\ eng_state = "idle"
    /\ duration = 2 /\ PollElapsed >= 2
    /\ progress_var = 50 /\ lbl_elapsed = <<0, 1>>

\* ------------------------------------------------------------------ C15
\* The track the player holds has unknown duration.
UnknownDuration ==
    \/ duration = 0
    \/ ValidIndex /\ playlist[current_idx + 1].duration = 0

\* C15: while the current track has duration 0, no poll changes current_idx,
\* asks the engine for a track or clears is_playing, whether or not the
\* engine is rendering and however old _play_start is; nor does the passing
\* of time or the engine falling silent.  Only the user's handlers move on.
C15_UnknownDurationNeverCompletes ==
    [][/\ (op' = "_poll_playback" /\ UnknownDuration)
            => /\ current_idx' = current_idx
               /\ cmds' = <<>> /\ ~errbox'
               /\ is_playing' = is_playing
               /\ UNCHANGED <<playlist, duration, _play_start, EngineVars>>
       /\ (op' \in {"tick", "engine_end"} /\ UnknownDuration)
            => UNCHANGED <<current_idx, is_playing, playlist, duration>>]_vars

\* A poll ran on a playing track of unknown duration with the engine silent
\* and _play_start as old as the clock of the model gets, repeat off.
C15_Witness ==
    /\ op = "_poll_playback"
    /\ ValidIndex /\ playlist[current_idx + 1].duration = 0
    /\ duration = 0
    /\ is_playing /\ ~is_paused
    /\ eng_state = "idle"
    /\ PollElapsed = MaxTime
    /\ ~repeat /\ Len(playlist) = 2

\* ------------------------------------------------------------------ C16
\* The steps that are not the user's.
AutoOps == {"_poll_playback", "tick", "engine_end"}

\* No user input, no rejected load, repeat and shuffle off.
Unattended == op \in AutoOps /\ ~errbox /\ ~repeat /\ ~shuffle

\* A track of known duration is playing.
KnownTrackPlaying ==
    is_playing /\ ~is_paused /\ ValidIndex /\ duration > 0

\* Every track of the playlist has a known duration.
AllKnown == \A i \in 1..Len(playlist) : playlist[i].duration > 0

\* What the claim concludes: the poll loads a track again and again, and
\* every track of the playlist is played again and again.
CyclesForever ==
    /\ []<>(op = "_poll_playback" /\ Accepted)
    /\ \A i \in 0..MaxLen :
          []<>(i < Len(playlist) => (current_idx = i /\ eng_state = "playing"))

\* The poll's step at the end of a track, repeat and shuffle off.
AdvancesAtEnd ==
    [][(/\ op' = "_poll_playback"
        /\ NaturalCompletion
        /\ ~repeat /\ ~shuffle
        /\ ValidIndex)
       => /\ current_idx' = (current_idx + 1) % Len(playlist)
          /\ Accepted' \/ Rejected']_vars

\* C16 as stated: once a track of known duration is playing with repeat and
\* shuffle off and from then on there is no user input and no rejected load,
\* the poll loads (current_idx + 1) mod length at the end of each track, every
\* track of the playlist is played again and again and playback never ends.
C16_AsStated ==
    /\ AdvancesAtEnd
    /\ <>(KnownTrackPlaying /\ []Unattended) => CyclesForever

\* C16, amended: the same, for a playlist all of whose tracks have a known
\* duration > 0, so that a track of known duration is playing throughout.
\* (A track of unknown duration, once loaded, is never left.)
C16_AutoAdvanceCycles ==
    /\ AdvancesAtEnd
    /\ <>[](KnownTrackPlaying /\ AllKnown /\ Unattended) => CyclesForever

\* The poll wrapped from the last track of a two-track playlist of known
\* durations to the first, repeat and shuffle off.
C16_Witness ==
    /\ op = "_poll_playback"
    /\ Accepted
    /\ ~repeat /\ ~shuffle
    /\ Len(playlist) = 2 /\ AllKnown
    /\ current_idx = 0
    /\ lbl_elapsed = <<0, 0>>
    /\ eng_state = "playing" /\ PollElapsed = 0

\* ------------------------------------------------------------------ C17
\* C17: playPause() on a non-empty playlist: with current_idx = -1 it loads
\* index 0; playing and not paused, it pauses the engine and sets is_paused;
\* paused, it resumes the engine and clears is_paused; stopped on a valid
\* current_idx, it loads that track again from elapsed 0.  (To load is to
\* make the index current and ask the engine for its file, which, accepted,
\* plays from 0.)  It never changes the playlist, and it changes current_idx
\* only from -1.
C17_PlayPauseDispatch ==
    [][(op' = "_play_pause" /\ playlist # <<>>)
       => /\ playlist' = playlist
          /\ current_idx' # current_idx => current_idx = NoIndex
          /\ current_idx = NoIndex
               => /\ current_idx' = 0
                  /\ Accepted' \/ Rejected'
                  /\ Accepted' => /\ eng_track' = playlist[1].path
                                  /\ eng_state' = "playing" /\ eng_pos' = 0
                                  /\ is_playing' /\ ~is_paused'
                                  /\ PollElapsed' = 0
          /\ (current_idx # NoIndex /\ is_playing /\ ~is_paused)
               => /\ cmds' = <<"pause">>
                  /\ is_paused' /\ is_playing'
                  /\ eng_state' # "playing"
          /\ (current_idx # NoIndex /\ is_paused)
               => /\ cmds' = <<"unpause">>
                  /\ ~is_paused'
                  /\ eng_state = "paused" => eng_state' = "playing"
          /\ (ValidIndex /\ ~is_playing /\ ~is_paused)
               => /\ Accepted' \/ Rejected'
                  /\ duration' = playlist[current_idx + 1].duration
                  /\ lbl_elapsed' = <<0, 0>> /\ progress_var' = 0
                  /\ Accepted' => /\ eng_track' = playlist[current_idx + 1].path
                                  /\ eng_state' = "playing" /\ eng_pos' = 0
                                  /\ is_playing' /\ ~is_paused'
                                  /\ PollElapsed' = 0]_vars

\* playPause() started the second track again, on which the player had
\* stopped (with no track loaded it would have started the first).
C17_Witness ==
    /\ op = "_play_pause"
    /\ Accepted
    /\ Len(playlist) = 2 /\ current_idx = 1
    /\ eng_track = playlist[2].path
    /\ playlist[2] # playlist[1]
    /\ is_playing /\ ~is_paused
    /\ PollElapsed = 0 /\ eng_pos = 0

\* ------------------------------------------------------------------ C18
\* scans without its i-th entry.
Without(i) == SubSeq(scans, 1, i - 1) \o SubSeq(scans, i + 1, Len(scans))

\* C18: a folder scan, once started, stays in flight until its one delivery:
\* no other handler (clear() and a further _open_folder included) removes or
\* alters it, a delivery takes exactly one scan out of flight, whichever
\* finished, and makes the playlist that scan's result in one step, a
\* non-empty one starting index 0; and every scan in flight is eventually
\* delivered.  So of two scans in flight the one delivered last decides the
\* playlist, and a scan pending across clear() fills the playlist again.
C18_ScansNeverCancelled ==
    /\ [][/\ op' \notin {"_open_folder", "scan_delivered"} => scans' = scans
          /\ op' = "_open_folder"
               => /\ \E tracks \in ScanResults : scans' = Append(scans, tracks)
                  /\ UNCHANGED <<PlayerVars, EngineVars>>
          /\ op' = "scan_delivered"
               => \E i \in 1..Len(scans) :
                    /\ scans' = Without(i)
                    /\ playlist' = scans[i]
                    /\ scans[i] # <<>>
                         => /\ current_idx' = 0
                            /\ Accepted' \/ Rejected'
                            /\ Accepted' => /\ eng_track' = scans[i][1].path
                                            /\ eng_state' = "playing"
                                            /\ is_playing' /\ ~is_paused']_vars
    /\ \A k \in 1..MaxPending : \A tracks \in ScanResults :
          (Len(scans) >= k /\ scans[k] = tracks)
              ~> (op = "scan_delivered" /\ playlist = tracks)

\* A scan was delivered and started its first track while another scan,
\* with a different result, is still in flight.
C18_Witness ==
    /\ op = "scan_delivered"
    /\ Accepted
    /\ Len(scans) = 1
    /\ playlist # <<>> /\ scans[1] # playlist
    /\ current_idx = 0 /\ is_playing
    /\ eng_track = playlist[1].path

\* ------------------------------------------------------------------ C19
\* C19: in every reachable state current_idx is -1 or an index into the
\* current playlist.
C19_IndexInRange == current_idx = NoIndex \/ ValidIndex

\* ------------------------------------------------------------------ C20
\* C20: in every reachable state is_playing implies that a track is loaded:
\* the playlist is non-empty and current_idx is a valid index; and while the
\* playlist is empty no handler issues a play command to the engine.
C20_PlayingImpliesLoaded ==
    /\ is_playing => (playlist # <<>> /\ ValidIndex)
    /\ playlist = <<>> => \A k \in 1..Len(cmds) : cmds[k] # "play"

\* ------------------------------------------------------------------ C21
\* C21: paused is a sub-state of playing: is_paused implies is_playing in
\* every state, and a poll never clears is_playing while paused.  The value
\* _pause_pos that a resume reads was written by a pause of the playback it
\* resumes: is_paused is set only by a pause, which writes the elapsed time
\* of that moment, and for as long as is_paused stays set neither the
\* current track nor _pause_pos changes; the resume finds the attribute
\* assigned and continues from it.
C21_PausedWithinPlayback ==
    [][/\ is_paused' => is_playing'
       /\ (op' = "_poll_playback" /\ is_paused) => is_playing' = is_playing
       /\ (~is_paused /\ is_paused')
            => /\ op' = "_play_pause"
               /\ _pause_pos' = PollElapsed
               /\ current_idx' = current_idx
       /\ (is_paused /\ is_paused') => UNCHANGED <<current_idx, _pause_pos>>
       /\ (op' = "_play_pause" /\ cmds' = <<"unpause">>)
            => /\ _pause_pos # NoAttr
               /\ PollElapsed' = _pause_pos]_vars

====
